---- MODULE Spec2Model ----
(***************************************************************************)
(* A model of the blender-plotting helpers.  The repository is a flat      *)
(* collection of independent helper functions, so the module holds one     *)
(* small state machine per helper family, each with its own specification: *)
(*                                                                         *)
(*   SpecSubsurf  renderers.remove_subsurf_modifiers on a growing scene     *)
(*   SpecRender   renderers.cycles_render / eevee_render / workbench_render *)
(*   SpecColor    color_scale.ColorScale.get_color and squaredlerp          *)
(*   SpecRot      geometry.to_quaternion / as_rot_type / rot_diff           *)
(*   SpecPose     movement.rigid_movement / set_world_pose on one object    *)
(*   SpecDocker   docker_builder.main                                       *)
(*   SpecScript   the main of examples/animations/animate_function.py and   *)
(*                of examples/bezier/bezier_SE3.py, statement by statement  *)
(*                                                                         *)
(* The variables of the families a specification does not exercise keep    *)
(* their initial values.                                                   *)
(***************************************************************************)
EXTENDS Integers, Sequences, FiniteSets, TLC

VARIABLES
    scene_objects,  \* scene.objects: sequence of [name, type, modifiers]
    sceneCall,      \* the last call on the scene: its arguments, the scene before it, what it returned
    render,         \* scene.render: the render settings
    cycles,         \* scene.cycles and the cycles add-on preferences
    shading,        \* scene.display.shading
    renderCall,     \* the last render helper called: its arguments and what bpy.ops.render.render was asked
    colorScale,     \* a ColorScale object: min_value, max_value, colors
    colorCall,      \* the last get_color call: its arguments, the position handed to squaredlerp, the result
    rotCall,        \* the last call of a geometry.py conversion: its arguments and how it ended
    matrix_world,   \* obj.matrix_world of the object the movement helpers work on: 4 rows of 4
    poseCall,       \* the last call of a movement helper: its arguments and how it ended
    dockerRun,      \* the last run of docker_builder.main: its arguments, what it did, how it ended
    scriptRun       \* a run of an example script: its arguments, the statement it is at, what it has done

sceneVars == <<scene_objects, sceneCall>>
renderVars == <<render, cycles, shading, renderCall>>
colorVars == <<colorScale, colorCall>>
rotVars == <<rotCall>>
poseVars == <<matrix_world, poseCall>>
dockerVars == <<dockerRun>>
scriptVars == <<scriptRun>>
vars == <<scene_objects, sceneCall, render, cycles, shading, renderCall, colorScale, colorCall,
          rotCall, matrix_world, poseCall, dockerRun, scriptRun>>

(***************************************************************************)
(* Bounds of the model.                                                    *)
(***************************************************************************)
MaxObjects == 2
MaxModifiers == 3
MaxCustomColors == 2
MaxValue == 6
MaxCoord == 1
TotalFrames == 3

(***************************************************************************)
(* renderers.py: the scene's objects and remove_subsurf_modifiers.         *)
(***************************************************************************)
ObjectTypes == {"MESH", "CURVE"}
ModifierTypes == {"SUBSURF", "BEVEL"}

NoCall == [op |-> "none"]

RemoveAt(s, i) == SubSeq(s, 1, i - 1) \o SubSeq(s, i + 1, Len(s))

\* A Python list iterator: it keeps an index, which moves on by one whatever
\* the loop body did to the list.
NextLinkByIndex(i, removed) == i + 1

\* `for mod in ob.modifiers` iterates a bpy_prop_collection over the object's
\* modifier list.  The host's iterator moves to the successor link before it
\* hands the current modifier to the loop body, so removing the current
\* modifier leaves the iterator on the modifier that followed it: that one
\* sits at the same index once the current one is gone.
NextLink(i, removed) == IF removed THEN i ELSE i + 1

\* A loop that looks at every object, whatever its type.
IsAnyObject(ob) == TRUE

\* ob.type == 'MESH'
IsMesh(ob) == ob.type = "MESH"

\* The inner loop of remove_subsurf_modifiers over one object's modifiers.
\* mod.show_render = False is set on a modifier that the next statement
\* removes, so it leaves no trace in the scene.
RECURSIVE ModifierLoop(_, _, _, _)
ModifierLoop(name, mods, i, acc) ==
    IF i > Len(mods) THEN [modifiers |-> mods, names |-> acc]
    ELSE IF mods[i] = "SUBSURF"
         THEN ModifierLoop(name, RemoveAt(mods, i), NextLink(i, TRUE), Append(acc, name))
         ELSE ModifierLoop(name, mods, NextLink(i, FALSE), acc)

\* The outer loop over scene.objects.
RECURSIVE ObjectLoop(_, _, _)
ObjectLoop(objs, k, acc) ==
    IF k > Len(objs) THEN [objects |-> objs, names |-> acc]
    ELSE IF IsMesh(objs[k])
         THEN LET r == ModifierLoop(objs[k].name, objs[k].modifiers, 1, acc)
              IN  ObjectLoop([objs EXCEPT ![k].modifiers = r.modifiers], k + 1, r.names)
         ELSE ObjectLoop(objs, k + 1, acc)

\* remove_subsurf_modifiers(scene): the scene's objects afterwards and the
\* returned list objects_with_subsurf.
remove_subsurf_modifiers(objs) == ObjectLoop(objs, 1, <<>>)

\* bpy.ops.mesh.primitive_*_add / curve creation: a new object, with a
\* name no other object has, and no modifiers.
AddObject(type) ==
    /\ Len(scene_objects) < MaxObjects
    /\ scene_objects' = Append(scene_objects,
                               [name |-> Len(scene_objects) + 1, type |-> type, modifiers |-> <<>>])
    /\ sceneCall' = NoCall
    /\ UNCHANGED <<renderVars, colorVars, rotVars, poseVars, dockerVars, scriptVars>>

\* bpy.ops.object.modifier_add(type=...): a modifier at the end of the stack.
AddModifier(k, mtype) ==
    /\ k \in 1..Len(scene_objects)
    /\ Len(scene_objects[k].modifiers) < MaxModifiers
    /\ scene_objects' = [scene_objects EXCEPT ![k].modifiers = Append(@, mtype)]
    /\ sceneCall' = NoCall
    /\ UNCHANGED <<renderVars, colorVars, rotVars, poseVars, dockerVars, scriptVars>>

\* A call of remove_subsurf_modifiers(scene).
CallRemoveSubsurf ==
    LET r == remove_subsurf_modifiers(scene_objects)
    IN  /\ scene_objects' = r.objects
        /\ sceneCall' = [op |-> "remove_subsurf_modifiers",
                         before |-> scene_objects,
                         ret |-> r.names]
        /\ UNCHANGED <<renderVars, colorVars, rotVars, poseVars, dockerVars, scriptVars>>

SubsurfNext ==
    \/ \E type \in ObjectTypes : AddObject(type)
    \/ \E k \in 1..MaxObjects, mtype \in ModifierTypes : AddModifier(k, mtype)
    \/ CallRemoveSubsurf

(***************************************************************************)
(* renderers.py: common_setup and the three render helpers.                *)
(***************************************************************************)
DefaultResolutionX == 1920
DefaultResolutionY == 1080
DefaultSamples == 128

Resolutions == {640, DefaultResolutionY, DefaultResolutionX}
SampleCounts == {16, DefaultSamples}
FileNames == {"renders/arrow"}

\* The settings of a freshly opened scene, as far as the helpers touch them.
RenderDefaults ==
    [use_persistent_data |-> FALSE,
     resolution_x |-> DefaultResolutionX,
     resolution_y |-> DefaultResolutionY,
     resolution_percentage |-> 50,
     use_sequencer |-> TRUE,
     use_compositing |-> TRUE,
     film_transparent |-> FALSE,
     color_mode |-> "RGB",
     file_format |-> "PNG",
     filepath |-> "/tmp/",
     engine |-> "BLENDER_EEVEE",
     alpha_mode |-> "SKY"]
CyclesDefaults ==
    [compute_device_type |-> "NONE", device |-> "CPU", tile_x |-> 0, tile_y |-> 0,
     samples |-> DefaultSamples]
ShadingDefaults == [light |-> "FLAT", color_type |-> "OBJECT"]

\* common_setup(scene, resolution_x, resolution_y, transparent)
common_setup(r, resolution_x, resolution_y, transparent) ==
    LET r1 == [r EXCEPT !.use_persistent_data = TRUE,
                        !.resolution_x = resolution_x,
                        !.resolution_y = resolution_y,
                        !.use_sequencer = FALSE,
                        !.use_compositing = FALSE]
    IN  IF transparent
        THEN [r1 EXCEPT !.film_transparent = transparent, !.color_mode = "RGBA"]
        ELSE r1

\* Each helper calls common_setup(scene): every optional argument of
\* common_setup takes its default, whatever the helper itself was given.
\* if animation: ... else: ... (the output path and format)
SetOutput(r, file_name, animation) ==
    IF animation
    THEN [r EXCEPT !.filepath = "animation/" \o file_name \o ".avi"]
    ELSE [r EXCEPT !.file_format = "PNG", !.filepath = file_name \o ".png"]

\* What bpy.ops.render.render(write_still=1, animation=animation) renders.
RenderOp(r, animation) ==
    [write_still |-> 1, animation |-> animation, engine |-> r.engine,
     resolution_x |-> r.resolution_x, resolution_y |-> r.resolution_y,
     filepath |-> r.filepath]

cycles_render(file_name, use_gpu, resolution_x, resolution_y, samples, transparent, animation) ==
    LET r1 == common_setup(render, DefaultResolutionX, DefaultResolutionY, FALSE)
        r2 == SetOutput(r1, file_name, animation)
        r3 == [r2 EXCEPT !.engine = "CYCLES"]
    IN  /\ render' = r3
        /\ cycles' = IF use_gpu
                     THEN [compute_device_type |-> "CUDA", device |-> "GPU",
                           tile_x |-> 2048, tile_y |-> 2048, samples |-> samples]
                     ELSE [compute_device_type |-> "CPU", device |-> "CPU",
                           tile_x |-> 64, tile_y |-> 64, samples |-> samples]
        /\ renderCall' = [op |-> "cycles_render", resolution_x |-> resolution_x,
                          resolution_y |-> resolution_y, transparent |-> transparent,
                          animation |-> animation, printed |-> <<>>,
                          rendered |-> RenderOp(r3, animation)]
        /\ UNCHANGED <<shading, scene_objects, sceneCall, colorVars, rotVars, poseVars, dockerVars, scriptVars>>

eevee_render(file_name, resolution_x, resolution_y, transparent, animation) ==
    LET r1 == common_setup(render, DefaultResolutionX, DefaultResolutionY, FALSE)
        rm == remove_subsurf_modifiers(scene_objects)
        r2 == SetOutput(r1, file_name, animation)
        r3 == [r2 EXCEPT !.engine = "BLENDER_EEVEE",
                         !.resolution_x = resolution_x,
                         !.resolution_y = resolution_y,
                         !.resolution_percentage = 100]
    IN  /\ render' = r3
        /\ scene_objects' = rm.objects
        /\ sceneCall' = [op |-> "remove_subsurf_modifiers", before |-> scene_objects,
                         ret |-> rm.names]
        /\ renderCall' = [op |-> "eevee_render", resolution_x |-> resolution_x,
                          resolution_y |-> resolution_y, transparent |-> transparent,
                          animation |-> animation,
                          printed |-> IF rm.names # <<>> THEN rm.names ELSE <<>>,
                          rendered |-> RenderOp(r3, animation)]
        /\ UNCHANGED <<cycles, shading, colorVars, rotVars, poseVars, dockerVars, scriptVars>>

workbench_render(file_name, resolution_x, resolution_y, transparent, animation) ==
    LET r1 == common_setup(render, DefaultResolutionX, DefaultResolutionY, FALSE)
        rm == remove_subsurf_modifiers(scene_objects)
        r2 == SetOutput(r1, file_name, animation)
        r3 == [r2 EXCEPT !.engine = "BLENDER_WORKBENCH",
                         !.resolution_x = resolution_x,
                         !.resolution_y = resolution_y,
                         !.resolution_percentage = 100]
        r4 == IF transparent THEN [r3 EXCEPT !.alpha_mode = "TRANSPARENT"] ELSE r3
    IN  /\ render' = r4
        /\ shading' = [light |-> "STUDIO", color_type |-> "MATERIAL"]
        /\ scene_objects' = rm.objects
        /\ sceneCall' = [op |-> "remove_subsurf_modifiers", before |-> scene_objects,
                         ret |-> rm.names]
        /\ renderCall' = [op |-> "workbench_render", resolution_x |-> resolution_x,
                          resolution_y |-> resolution_y, transparent |-> transparent,
                          animation |-> animation,
                          printed |-> IF rm.names # <<>> THEN rm.names ELSE <<>>,
                          rendered |-> RenderOp(r4, animation)]
        /\ UNCHANGED <<cycles, colorVars, rotVars, poseVars, dockerVars, scriptVars>>

\* The scenes the render helpers are tried on.
Mesh(name, mods) == [name |-> name, type |-> "MESH", modifiers |-> mods]
Curve(name, mods) == [name |-> name, type |-> "CURVE", modifiers |-> mods]
RenderScenes ==
    { <<>>,
      <<Mesh(1, <<"SUBSURF">>)>>,
      <<Mesh(1, <<"SUBSURF", "SUBSURF", "BEVEL">>), Curve(2, <<"SUBSURF">>)>> }

RenderNext ==
    \/ \E f \in FileNames, g \in BOOLEAN, x \in Resolutions, y \in Resolutions,
          s \in SampleCounts, t \in BOOLEAN, a \in BOOLEAN :
          cycles_render(f, g, x, y, s, t, a)
    \/ \E f \in FileNames, x \in Resolutions, y \in Resolutions, t \in BOOLEAN, a \in BOOLEAN :
          eevee_render(f, x, y, t, a)
    \/ \E f \in FileNames, x \in Resolutions, y \in Resolutions, t \in BOOLEAN, a \in BOOLEAN :
          workbench_render(f, x, y, t, a)

(***************************************************************************)
(* color_scale.py: IEEE double arithmetic, as far as squaredlerp's         *)
(* comparison `t <= a + 1/N` needs it.  A positive double is a mantissa of *)
(* Precision bits, the first of them 1, and the exponent of that first     *)
(* bit; results are rounded to nearest, ties to even.                      *)
(***************************************************************************)
Precision == 53

FloatZero == [m |-> <<>>, e |-> 0]
IsZero(f) == f.m = <<>>
Zeros(n) == [j \in 1..n |-> 0]
FloatOne == [m |-> <<1>> \o Zeros(Precision - 1), e |-> 0]

RECURSIVE Pow2(_)
Pow2(n) == IF n = 0 THEN 1 ELSE 2 * Pow2(n - 1)

\* The binary digits of a natural number, most significant first.
RECURSIVE BinaryOf(_)
BinaryOf(c) == IF c = 0 THEN <<>> ELSE BinaryOf(c \div 2) \o <<c % 2>>

\* x + y for two digit strings of one length, with the carry out.
RECURSIVE AddFrom(_, _, _, _, _)
AddFrom(x, y, j, c, acc) ==
    IF j = 0 THEN [bits |-> acc, carry |-> c]
    ELSE AddFrom(x, y, j - 1, (x[j] + y[j] + c) \div 2, <<(x[j] + y[j] + c) % 2>> \o acc)
AddBits(x, y) == AddFrom(x, y, Len(x), 0, <<>>)

\* x * i for a digit string and a small natural number.
RECURSIVE MulFrom(_, _, _, _, _)
MulFrom(x, i, j, c, acc) ==
    IF j = 0 THEN BinaryOf(c) \o acc
    ELSE MulFrom(x, i, j - 1, (x[j] * i + c) \div 2, <<(x[j] * i + c) % 2>> \o acc)

\* Round an exact value (digits starting with a 1 at exponent e; sticky says
\* that more non-zero digits follow) to Precision digits, ties to even.
Round(bits, sticky, e) ==
    LET L == Len(bits)
        m == IF L >= Precision THEN SubSeq(bits, 1, Precision)
             ELSE bits \o Zeros(Precision - L)
        guard == IF L > Precision THEN bits[Precision + 1] ELSE 0
        rest == sticky \/ \E j \in (Precision + 2)..L : bits[j] = 1
        up == guard = 1 /\ (rest \/ m[Precision] = 1)
        inc == AddBits(m, Zeros(Precision - 1) \o <<1>>)
    IN  IF ~up THEN [m |-> m, e |-> e]
        ELSE IF inc.carry = 1 THEN [m |-> <<1>> \o Zeros(Precision - 1), e |-> e + 1]
        ELSE [m |-> inc.bits, e |-> e]

\* The exponent e with q * 2^e <= p < q * 2^(e+1), for p, q > 0.
RECURSIVE ExpOf(_, _)
ExpOf(p, q) ==
    IF p >= 2 * q THEN ExpOf(p, 2 * q) + 1
    ELSE IF p < q THEN ExpOf(2 * p, q) - 1
    ELSE 0

\* n more digits of r / q (r < q), and the remainder left.
RECURSIVE LongDiv(_, _, _, _)
LongDiv(r, q, n, acc) ==
    IF n = 0 THEN [bits |-> acc, rem |-> r]
    ELSE IF 2 * r >= q THEN LongDiv(2 * r - q, q, n - 1, Append(acc, 1))
    ELSE LongDiv(2 * r, q, n - 1, Append(acc, 0))

\* p / q in doubles, for small naturals p >= 0 and q > 0.
FDiv(p, q) ==
    IF p = 0 THEN FloatZero
    ELSE LET e == ExpOf(p, q)
             pn == IF e < 0 THEN p * Pow2(-e) ELSE p
             qn == IF e > 0 THEN q * Pow2(e) ELSE q
             d == LongDiv(pn - qn, qn, Precision, <<1>>)
         IN  Round(d.bits, d.rem # 0, e)

\* i * f in doubles, for a small natural i.
FMulNat(i, f) ==
    IF i = 0 \/ IsZero(f) THEN FloatZero
    ELSE LET b == MulFrom(f.m, i, Precision, 0, <<>>)
         IN  Round(b, FALSE, f.e + (Len(b) - Precision))

\* f + g in doubles.
FAdd(f, g) ==
    IF IsZero(f) THEN g
    ELSE IF IsZero(g) THEN f
    ELSE LET lf == f.e - (Precision - 1)
             lg == g.e - (Precision - 1)
             lo == IF lf < lg THEN lf ELSE lg
             hi == IF f.e > g.e THEN f.e ELSE g.e
             x == Zeros(hi - f.e) \o f.m \o Zeros(lf - lo)
             y == Zeros(hi - g.e) \o g.m \o Zeros(lg - lo)
             sum == AddBits(x, y)
         IN  IF sum.carry = 1 THEN Round(<<1>> \o sum.bits, FALSE, hi + 1)
             ELSE Round(sum.bits, FALSE, hi)

\* f <= g in doubles.
FLeq(f, g) ==
    IF IsZero(f) THEN TRUE
    ELSE IF IsZero(g) THEN FALSE
    ELSE IF f.e # g.e THEN f.e < g.e
    ELSE LET D == {j \in 1..Precision : f.m[j] # g.m[j]}
         IN  D = {} \/ f.m[CHOOSE j \in D : \A k \in D : j <= k] < g.m[CHOOSE j \in D : \A k \in D : j <= k]

(***************************************************************************)
(* color_scale.py: COMMON_SCALES, squaredlerp, ColorScale.                 *)
(*                                                                         *)
(* A control colour is a triple of channel numerators; the division by 255 *)
(* of COMMON_SCALES is one positive factor on every channel of a scale and *)
(* is left implicit.  An interpolated colour sqrt((1-d)*a^2 + d*b^2) is    *)
(* kept exactly, as the squares of its channels over a denominator:        *)
(* channels are not negative, so two colours are equal exactly when their  *)
(* squares are.  Which segment the loop picks, and whether it runs off the *)
(* end of the control points, is decided in doubles as the code does.      *)
(***************************************************************************)
COMMON_SCALES ==
    [viridis |-> << <<51, 0, 99>>, <<5, 99, 88>>, <<45, 173, 64>>, <<255, 230, 0>> >>,
     magma   |-> << <<1, 0, 4>>, <<57, 1, 102>>, <<225, 59, 80>>, <<249, 252, 173>> >>,
     heat    |-> << <<255, 255, 255>>, <<255, 236, 10>>, <<251, 109, 8>>, <<252, 0, 5>> >>,
     rainbow |-> << <<1, 0, 0>>, <<1, 1, 0>>, <<0, 1, 0>>, <<0, 1, 1>>, <<0, 0, 1>>,
                    <<1, 0, 1>>, <<1, 0, 0>> >>,
     turbo   |-> << <<48, 18, 59>>, <<70, 102, 221>>, <<27, 229, 181>>, <<166, 250, 59>>,
                    <<220, 225, 55>>, <<250, 124, 31>>, <<206, 45, 4>>, <<122, 12, 2>> >>,
     mako    |-> << <<218, 243, 225>>, <<84, 202, 173>>, <<53, 121, 162>>, <<62, 51, 103>>,
                    <<13, 4, 8>> >>]
ScaleNames == DOMAIN COMMON_SCALES

\* Colours a caller may pass as a list of its own.
Palette == { <<0, 0, 1>>, <<1, 0, 0>>, <<1, 2, 0>> }
CustomColors == UNION { [1..n -> Palette] : n \in 1..MaxCustomColors }

Reverse(s) == [j \in 1..Len(s) |-> s[Len(s) + 1 - j]]

\* ColorScale.__init__(min_value, max_value, invert, colors); is_str is
\* isinstance(colors, str).
NewColorScale(min_value, max_value, invert, colors, is_str) ==
    LET c == IF is_str THEN COMMON_SCALES[colors] ELSE colors
    IN  [min_value |-> min_value,
         max_value |-> max_value,
         colors |-> IF invert THEN Reverse(c) ELSE c]

Square(c) == [j \in 1..3 |-> c[j] * c[j]]
Exactly(c) == [status |-> "ok", sq |-> Square(c), den |-> 1]
Raised(exc) == [status |-> exc]

\* np.linspace(0, 1, N+1)[i]: i * (1/N), and the end point set to 1.
Linspace(N, i) == IF i = N THEN FloatOne ELSE FMulNat(i, FDiv(1, N))

\* The doubles the model meets, each computed once: a + 1/N for every
\* number of segments N and every a of linspace(0, 1, N+1), and num/den for
\* every position a call can ask for.
ScaleLengths == {Len(COMMON_SCALES[n]) : n \in ScaleNames} \cup {MaxCustomColors}
MaxSegments == (CHOOSE x \in ScaleLengths : \A y \in ScaleLengths : y <= x) - 1
UpperEnds == [N \in 1..MaxSegments |-> [i \in 0..N |-> FAdd(Linspace(N, i), FDiv(1, N))]]
Quotients == [den \in 1..(MaxValue + 1) |-> [num \in 1..(MaxValue + 2) |-> FDiv(num, den)]]

\* t <= a + 1/N for t = num/den (den > 0) and a = linspace(0, 1, N+1)[i].
InSegment(num, den, N, i) ==
    num <= 0 \/ FLeq(Quotients[den][num], UpperEnds[N][i])

\* squaredlerp(points, t) for t = num/den.
squaredlerp(points, num, den) ==
    LET N == Len(points) - 1
        hits == {i \in 0..N : InSegment(num, den, N, i)}
        i == CHOOSE h \in hits : \A k \in hits : h <= k
        \* delta = clip((t - a) / (1/N), 0, 1), as a numerator over den
        raw == num * N - i * den
        d == IF raw < 0 THEN 0 ELSE IF raw > den THEN den ELSE raw
    IN  IF N = 0 THEN Exactly(points[1])
        ELSE IF hits = {} THEN Raised("UnboundLocalError")   \* p was never assigned
        ELSE IF i = N THEN Raised("IndexError")              \* points[i+1]
        ELSE [status |-> "ok",
              sq |-> [j \in 1..3 |-> (den - d) * Square(points[i + 1])[j]
                                     + d * Square(points[i + 2])[j]],
              den |-> den]

\* No clamping at all.
NoClamp(value, lo, hi) == value

\* max(min(value, self.max_value), self.min_value)
Clamp(value, lo, hi) ==
    LET low == IF value < hi THEN value ELSE hi
    IN  IF low > lo THEN low ELSE lo

\* The normalized position get_color hands to squaredlerp, as num/den.
Normalized(scale, value) ==
    [num |-> Clamp(value, scale.min_value, scale.max_value) - scale.min_value,
     den |-> scale.max_value - scale.min_value]

RetTypes == {"rgb", "cmyk"}

\* ColorScale.get_color(value, ret_type); of the return types only 'rgb'
\* (the colour as it is) and an unknown one are modelled.
get_color(scale, value, ret_type) ==
    LET t == Normalized(scale, value)
        rgb_color == squaredlerp(scale.colors, t.num, t.den)
    IN  IF rgb_color.status # "ok" THEN rgb_color
        ELSE IF ret_type = "rgb" THEN rgb_color
        ELSE Raised("ValueError")

SameColor(x, y) ==
    /\ x.status = "ok" /\ y.status = "ok"
    /\ \A j \in 1..3 : x.sq[j] * y.den = y.sq[j] * x.den

\* A call of get_color on the scale.
CallGetColor(value, ret_type) ==
    /\ colorCall' = [op |-> "get_color", value |-> value, ret_type |-> ret_type,
                     t |-> Normalized(colorScale, value),
                     ret |-> get_color(colorScale, value, ret_type)]
    /\ UNCHANGED <<colorScale, sceneVars, renderVars, rotVars, poseVars, dockerVars, scriptVars>>

Values == (-2)..(MaxValue + 1)

ColorNext ==
    \E value \in Values, ret_type \in RetTypes : CallGetColor(value, ret_type)

(***************************************************************************)
(* Rotations, as geometry.py and movement.py hand them to numpy-quaternion *)
(* and mathutils.  The model keeps to the rotations that map the           *)
(* coordinate axes onto each other, whose matrices are integer matrices.   *)
(*                                                                         *)
(*  - A quaternion is a tuple <<w, x, y, z>> of integers.  The unit        *)
(*    quaternion of a quarter turn has irrational components, so a         *)
(*    quaternion that a conversion computes is kept as the shortest        *)
(*    integer quaternion on the same line through the origin; every        *)
(*    conversion out of a quaternion normalises it, as the libraries do.   *)
(*  - An angle is a whole number of AngleUnit-ths of a half turn.          *)
(*  - A rotation vector is [dir, angle]: the axis as an integer direction  *)
(*    and the angle, that is the vector angle * dir / |dir|.               *)
(***************************************************************************)
AngleUnit == 12

Abs(a) == IF a < 0 THEN -a ELSE a

RECURSIVE Gcd(_, _)
Gcd(a, b) == IF b = 0 THEN a ELSE Gcd(b, a % b)

\* A tuple of three or four numbers, written out.
Tuple(f) == IF Len(f) = 3 THEN << f[1], f[2], f[3] >> ELSE << f[1], f[2], f[3], f[4] >>

\* The shortest integer tuple on the line of v, its first non-zero entry positive.
Shortest(v) ==
    LET n == Len(v)
        RECURSIVE G(_)
        G(j) == IF j = 0 THEN 0 ELSE Gcd(Abs(v[j]), G(j - 1))
        g == G(n)
        nz == {j \in 1..n : v[j] # 0}
        first == CHOOSE j \in nz : \A k \in nz : j <= k
        sgn == IF v[first] < 0 THEN -1 ELSE 1
    IN  IF g = 0 THEN v ELSE Tuple([j \in 1..n |-> sgn * (v[j] \div g)])

\* The shortest integer tuple in the direction of v (no change of sign).
Direction(v) ==
    LET n == Len(v)
        RECURSIVE G(_)
        G(j) == IF j = 0 THEN 0 ELSE Gcd(Abs(v[j]), G(j - 1))
        g == G(n)
    IN  IF g = 0 THEN v ELSE Tuple([j \in 1..n |-> v[j] \div g])

Norm2(v) ==
    LET RECURSIVE S(_)
        S(j) == IF j = 0 THEN 0 ELSE v[j] * v[j] + S(j - 1)
    IN  S(Len(v))

\* The whole square root (of a square).
ISqrt(n) == CHOOSE r \in 0..n : r * r <= n /\ (r + 1) * (r + 1) > n

Identity3 == << <<1, 0, 0>>, <<0, 1, 0>>, <<0, 0, 1>> >>
Identity4 == << <<1, 0, 0, 0>>, <<0, 1, 0, 0>>, <<0, 0, 1, 0>>, <<0, 0, 0, 1>> >>

\* A @ B for 4x4 matrices.
MatMul(A, B) ==
    LET Dot(i, j) == A[i][1] * B[1][j] + A[i][2] * B[2][j] + A[i][3] * B[3][j] + A[i][4] * B[4][j]
        Row(i) == << Dot(i, 1), Dot(i, 2), Dot(i, 3), Dot(i, 4) >>
    IN  << Row(1), Row(2), Row(3), Row(4) >>

\* Matrix.to_4x4() / np.identity(4) with the rotation in its corner.
To4x4(R) ==
    << << R[1][1], R[1][2], R[1][3], 0 >>,
       << R[2][1], R[2][2], R[2][3], 0 >>,
       << R[3][1], R[3][2], R[3][3], 0 >>,
       << 0, 0, 0, 1 >> >>

\* rot_np[0:3, 0:3]
Corner3(M) ==
    << << M[1][1], M[1][2], M[1][3] >>,
       << M[2][1], M[2][2], M[2][3] >>,
       << M[3][1], M[3][2], M[3][3] >> >>

Det3(R) ==
      R[1][1] * (R[2][2] * R[3][3] - R[2][3] * R[3][2])
    - R[1][2] * (R[2][1] * R[3][3] - R[2][3] * R[3][1])
    + R[1][3] * (R[2][1] * R[3][2] - R[2][2] * R[3][1])

\* quat.as_rotation_matrix(q) / Quaternion.to_matrix(): the rotation of the
\* normalised quaternion.
QuatToMatrix(q) ==
    LET w == q[1]  x == q[2]  y == q[3]  z == q[4]
        n == Norm2(q)
    IN  IF n = 0 THEN Identity3
        ELSE << << (w*w + x*x - y*y - z*z) \div n, (2 * (x*y - w*z)) \div n, (2 * (x*z + w*y)) \div n >>,
                << (2 * (x*y + w*z)) \div n, (w*w - x*x + y*y - z*z) \div n, (2 * (y*z - w*x)) \div n >>,
                << (2 * (x*z - w*y)) \div n, (2 * (y*z + w*x)) \div n, (w*w - x*x - y*y + z*z) \div n >> >>

\* quat.from_rotation_matrix(R) / Matrix.to_quaternion(): each of the four
\* tuples below is a multiple of the quaternion of R (by 4w, 4x, 4y, 4z).
MatrixToQuat(R) ==
    LET byW == << 1 + R[1][1] + R[2][2] + R[3][3], R[3][2] - R[2][3], R[1][3] - R[3][1], R[2][1] - R[1][2] >>
        byX == << R[3][2] - R[2][3], 1 + R[1][1] - R[2][2] - R[3][3], R[1][2] + R[2][1], R[1][3] + R[3][1] >>
        byY == << R[1][3] - R[3][1], R[1][2] + R[2][1], 1 - R[1][1] + R[2][2] - R[3][3], R[2][3] + R[3][2] >>
        byZ == << R[2][1] - R[1][2], R[1][3] + R[3][1], R[2][3] + R[3][2], 1 - R[1][1] - R[2][2] + R[3][3] >>
    IN  Shortest(IF byW[1] # 0 THEN byW
                 ELSE IF byX[2] # 0 THEN byX
                 ELSE IF byY[3] # 0 THEN byY
                 ELSE byZ)

\* The angle t in 0..2*AngleUnit of a quaternion: cos(t/2) = w / |q|.
QuatAngle(q) ==
    LET w == q[1]
        n == Norm2(q)
        half == IF w * w = n THEN 0                            \* cos = 1
                ELSE IF 4 * w * w = 3 * n THEN AngleUnit \div 6 \* cos = sqrt(3)/2
                ELSE IF 2 * w * w = n THEN AngleUnit \div 4     \* cos = sqrt(1/2)
                ELSE IF 4 * w * w = n THEN AngleUnit \div 3     \* cos = 1/2
                ELSE AngleUnit \div 2                           \* cos = 0
    IN  IF w >= 0 THEN 2 * half ELSE 2 * (AngleUnit - half)

\* quat.as_rotation_vector(q) = 2 * log(normalized q)
QuatToRotVec(q) ==
    LET v == << q[2], q[3], q[4] >>
    IN  IF Norm2(v) = 0
        THEN (IF q[1] < 0 THEN [dir |-> <<1, 0, 0>>, angle |-> 2 * AngleUnit]   \* log(-1) = pi i
              ELSE [dir |-> <<0, 0, 0>>, angle |-> 0])
        ELSE [dir |-> Direction(v), angle |-> QuatAngle(q)]

\* quat.from_rotation_vector(v) = exp(v / 2): cos(t/2) and sin(t/2) * axis,
\* scaled to integers.
RotVecToQuat(v) ==
    LET d == v.dir
        t == v.angle % (4 * AngleUnit)
        a == IF 2 * t <= 4 * AngleUnit THEN t ELSE 4 * AngleUnit - t   \* the same cosine
        neg(u) == << -u[1], -u[2], -u[3] >>
        s == IF 2 * t <= 4 * AngleUnit THEN d ELSE neg(d)              \* the sign of the sine
        n == Norm2(d)
    IN  IF n = 0 \/ a = 0 THEN <<1, 0, 0, 0>>
        ELSE IF a = 2 * AngleUnit THEN <<-1, 0, 0, 0>>
        ELSE IF a = AngleUnit THEN <<0, s[1], s[2], s[3]>>
        \* quarter turns about an axis with |d|^2 = 1, thirds of a turn about one with |d|^2 = 3
        ELSE IF a < AngleUnit THEN <<1, s[1], s[2], s[3]>>
        ELSE <<-1, s[1], s[2], s[3]>>

\* The product of two quaternions.
QuatMul(p, q) ==
    << p[1]*q[1] - p[2]*q[2] - p[3]*q[3] - p[4]*q[4],
       p[1]*q[2] + p[2]*q[1] + p[3]*q[4] - p[4]*q[3],
       p[1]*q[3] - p[2]*q[4] + p[3]*q[1] + p[4]*q[2],
       p[1]*q[4] + p[2]*q[3] - p[3]*q[2] + p[4]*q[1] >>

QuatConjugate(q) == << q[1], -q[2], -q[3], -q[4] >>

\* The cosine of k eighths of a turn: n, or n * sqrt(1/2) when r is 1.
Cos45(k) ==
    CASE k % 8 = 0 -> [n |-> 1, r |-> 0]
      [] k % 8 \in {1, 7} -> [n |-> 1, r |-> 1]
      [] k % 8 \in {2, 6} -> [n |-> 0, r |-> 0]
      [] k % 8 \in {3, 5} -> [n |-> -1, r |-> 1]
      [] OTHER -> [n |-> -1, r |-> 0]
Sin45(k) == Cos45(k + 6)

\* quat.from_euler_angles(alpha, beta, gamma):
\*   w =  cos(beta/2) cos((alpha+gamma)/2),  x = -sin(beta/2) sin((alpha-gamma)/2),
\*   y =  sin(beta/2) cos((alpha-gamma)/2),  z =  cos(beta/2) sin((alpha+gamma)/2),
\* for half angles that are eighths of a turn, scaled to whole numbers (the
\* products are 1, sqrt(1/2) or 1/2 times a sign, and those of one
\* quaternion of a turn of the cube differ by factors of 2 at most).
EulerToQuat(e) ==
    LET eighth == AngleUnit \div 4
        s == (e[1] + e[3]) \div (2 * eighth)
        d == (e[1] - e[3]) \div (2 * eighth)
        b == e[2] \div (2 * eighth)
        Times(f, g) == IF f.n * g.n = 0 THEN 0
                       ELSE f.n * g.n * (IF f.r + g.r = 0 THEN 2 ELSE 1)
    IN  Direction(<< Times(Cos45(b), Cos45(s)), -Times(Sin45(b), Sin45(d)),
                     Times(Sin45(b), Cos45(d)), Times(Cos45(b), Sin45(s)) >>)

(***************************************************************************)
(* geometry.py: to_quaternion, as_rot_type, rot_diff.                      *)
(***************************************************************************)
ACCEPTED_ROT_TYPES == {"quaternion", "euler_ZYZ", "rot_vector", "axis_angle", "rot_mat", "matrix"}

\* np.arctan2(y, x) for a point on an axis or a diagonal (the sign of a
\* zero is not modelled).
Atan2(y, x) ==
    LET q == AngleUnit \div 4
    IN  IF y = 0 THEN (IF x >= 0 THEN 0 ELSE 4 * q)
        ELSE IF y > 0 THEN (IF x > 0 THEN q ELSE IF x = 0 THEN 2 * q ELSE 3 * q)
        ELSE (IF x > 0 THEN -q ELSE IF x = 0 THEN -2 * q ELSE -3 * q)

\* quat.as_euler_angles(q)
QuatToEuler(q) ==
    LET w == q[1]  x == q[2]  y == q[3]  z == q[4]
        n == Norm2(q)
        c == w * w + z * z       \* cos(beta/2)^2 = c / n
        halfBeta == IF c = n THEN 0
                    ELSE IF 4 * c = 3 * n THEN AngleUnit \div 6
                    ELSE IF 2 * c = n THEN AngleUnit \div 4
                    ELSE IF 4 * c = n THEN AngleUnit \div 3
                    ELSE AngleUnit \div 2
    IN  << Atan2(z, w) + Atan2(-x, y), 2 * halfBeta, Atan2(z, w) - Atan2(-x, y) >>

\* The forms of a rotation that to_quaternion is handed, with len(rot) and
\* np.asarray(rot).shape of each.
ListedForms == {"matrix3x3", "matrix4x4", "rot_vector", "quaternion", "axis_angle"}
RotForms == ListedForms \cup {"vector5"}
LenOf(form) ==
    CASE form = "axis_angle" -> 2
      [] form \in {"matrix3x3", "rot_vector"} -> 3
      [] form \in {"matrix4x4", "quaternion"} -> 4
      [] OTHER -> 5
ShapeOf(form) ==
    CASE form = "matrix3x3" -> <<3, 3>>
      [] form = "matrix4x4" -> <<4, 4>>
      [] form = "rot_vector" -> <<3>>
      [] form = "quaternion" -> <<4>>
      [] form = "axis_angle" -> <<2>>
      [] OTHER -> <<5>>

\* The rotations the conversions are tried on: none, a quarter turn about z,
\* a half turn about x, a third of a turn about the diagonal, a half turn
\* about a face diagonal, three quarters of a turn about y.
SampleQuats ==
    << <<1, 0, 0, 0>>, <<1, 0, 0, 1>>, <<0, 1, 0, 0>>, <<1, 1, 1, 1>>, <<0, 1, 1, 0>>,
       <<-1, 0, 1, 0>> >>

\* The rotation of quaternion q written in a form.
InForm(form, q) ==
    CASE form = "matrix3x3" -> QuatToMatrix(q)
      [] form = "matrix4x4" -> To4x4(QuatToMatrix(q))
      [] form = "rot_vector" -> QuatToRotVec(q)
      [] form = "quaternion" -> q
      [] form = "axis_angle" -> << QuatToRotVec(q).dir, QuatToRotVec(q).angle >>
      [] OTHER -> <<0, 0, 0, 0, 0>>
RotInput(form, i) == [form |-> form, v |-> InForm(form, SampleQuats[i])]

Returned(v) == [status |-> "ok", value |-> v]
ReturnedNone == [status |-> "ok", value |-> "None"]

\* The first half of to_quaternion: q, or "unbound" when no branch assigned
\* it, or the exception raised.
QuatOfInput(rot) ==
    IF LenOf(rot.form) = 2
    THEN [status |-> "unbound"]   \* the quaternion is computed and dropped
    ELSE CASE ShapeOf(rot.form) = <<3, 3>> -> Returned(MatrixToQuat(rot.v))
           [] ShapeOf(rot.form) = <<4, 4>> -> Returned(MatrixToQuat(Corner3(rot.v)))
           [] ShapeOf(rot.form) = <<3>> -> Returned(RotVecToQuat(rot.v))
           [] ShapeOf(rot.form) = <<4>> -> Returned(rot.v)
           [] OTHER -> Raised("ValueError")

\* to_quaternion(rot, type)
to_quaternion(rot, type) ==
    LET q == QuatOfInput(rot)
    IN  IF q.status = "ValueError" THEN q
        ELSE IF type \notin {"tuple", "quat"} THEN ReturnedNone
        ELSE IF q.status = "unbound" THEN Raised("UnboundLocalError")
        ELSE IF type = "tuple" THEN Returned(<< q.value[2], q.value[3], q.value[4], q.value[1] >>)
        ELSE q

\* as_rot_type(q, rot_type)
as_rot_type(q, rot_type) ==
    CASE rot_type = "quaternion" -> Returned(q)
      [] rot_type = "euler_ZYZ" -> Returned(QuatToEuler(q))
      [] rot_type = "rot_mat" -> Returned(QuatToMatrix(q))
      [] rot_type = "rot_vec" -> Returned(QuatToRotVec(q))
      [] rot_type = "axis_angle" ->
            \* axis = rot_vec / angle: not a number when the angle is 0
            Returned(<< IF QuatToRotVec(q).angle = 0 THEN "nan" ELSE "unit",
                        QuatToRotVec(q).dir, QuatToRotVec(q).angle >>)
      [] rot_type = "matrix" -> Returned(To4x4(QuatToMatrix(q)))
      [] OTHER -> Raised("ValueError")

\* rot_diff(rot_a, rot_b, rot_type)
rot_diff(rot_a, rot_b, rot_type) ==
    LET q_a == to_quaternion(rot_a, "quat")
        q_b == to_quaternion(rot_b, "quat")
    IN  IF q_a.status # "ok" THEN q_a
        ELSE IF q_b.status # "ok" THEN q_b
        ELSE as_rot_type(QuatMul(q_a.value, QuatConjugate(q_b.value)), rot_type)

RotTypeNames == ACCEPTED_ROT_TYPES \cup {"rot_vec", "euler_XYZ"}
QuatTypes == {"tuple", "quat", "list"}
Samples == 1..Len(SampleQuats)
SecondForms == {"matrix3x3", "quaternion", "axis_angle"}
SecondSamples == {2, 4}

\* The results of the calls below, each worked out once.
RotInputs == [form \in RotForms, i \in Samples |-> RotInput(form, i)]
ToQuaternionResults ==
    [form \in RotForms, i \in Samples, type \in QuatTypes |->
        to_quaternion(RotInputs[form, i], type)]
AsRotTypeResults ==
    [i \in Samples, rot_type \in RotTypeNames |-> as_rot_type(SampleQuats[i], rot_type)]
RotDiffResults ==
    [fa \in RotForms, ia \in Samples, fb \in SecondForms, ib \in SecondSamples,
     rot_type \in RotTypeNames |-> rot_diff(RotInputs[fa, ia], RotInputs[fb, ib], rot_type)]

CallToQuaternion(form, i, type) ==
    /\ rotCall' = [op |-> "to_quaternion", form |-> form, rot |-> RotInputs[form, i].v,
                   type |-> type, ret |-> ToQuaternionResults[form, i, type]]
    /\ UNCHANGED <<sceneVars, renderVars, colorVars, poseVars, dockerVars, scriptVars>>

CallAsRotType(i, rot_type) ==
    /\ rotCall' = [op |-> "as_rot_type", q |-> SampleQuats[i], rot_type |-> rot_type,
                   ret |-> AsRotTypeResults[i, rot_type]]
    /\ UNCHANGED <<sceneVars, renderVars, colorVars, poseVars, dockerVars, scriptVars>>

CallRotDiff(fa, ia, fb, ib, rot_type) ==
    /\ rotCall' = [op |-> "rot_diff", form |-> fa, rot |-> RotInputs[fa, ia].v,
                   form_b |-> fb, rot_b |-> RotInputs[fb, ib].v, rot_type |-> rot_type,
                   ret |-> RotDiffResults[fa, ia, fb, ib, rot_type]]
    /\ UNCHANGED <<sceneVars, renderVars, colorVars, poseVars, dockerVars, scriptVars>>

RotNext ==
    \/ \E form \in RotForms, i \in Samples, type \in QuatTypes : CallToQuaternion(form, i, type)
    \/ \E i \in Samples, rot_type \in RotTypeNames : CallAsRotType(i, rot_type)
    \/ \E fa \in RotForms, ia \in Samples, fb \in SecondForms, ib \in SecondSamples,
          rot_type \in RotTypeNames : CallRotDiff(fa, ia, fb, ib, rot_type)

(***************************************************************************)
(* movement.py: rigid_movement and set_world_pose.                         *)
(* Rotations are the turns of a cube and lengths are whole numbers, so the *)
(* matrices are worked out exactly; the rounding of the host's single      *)
(* precision matrices is left out.                                         *)
(***************************************************************************)
ROTATION_TYPES == {"quaternion", "euler_ZYZ", "rot_mat", "rot_vec"}

None == [given |-> FALSE]
Some(v) == [given |-> TRUE, v |-> v]

\* Matrix.Translation(t)
Translation(t) ==
    << <<1, 0, 0, t[1]>>, <<0, 1, 0, t[2]>>, <<0, 0, 1, t[3]>>, <<0, 0, 0, 1>> >>

\* Matrix.Scale(s[0],4,(1,0,0)) @ Matrix.Scale(s[1],4,(0,1,0)) @ Matrix.Scale(s[2],4,(0,0,1))
Scaling(s) ==
    << <<s[1], 0, 0, 0>>, <<0, s[2], 0, 0>>, <<0, 0, s[3], 0>>, <<0, 0, 0, 1>> >>

\* Matrix.Rotation(angle, 4, axis) with axis = axis_angle / rot_angle.  For
\* an angle of 0 the axis is not a number, and the host, which cannot
\* normalise it, returns the identity.
Rotation(angle, axis) ==
    IF angle = 0 THEN Identity4
    ELSE To4x4(QuatToMatrix(RotVecToQuat([dir |-> axis, angle |-> angle])))

\* Matrix.decompose(): the translation is the last column; the scale is the
\* length of each of the first three columns and the rotation is what is
\* left of them, both negated when the columns are a mirror image; the
\* rotation is returned as a quaternion.
Decompose(M) ==
    LET Length(j) == ISqrt(Norm2(<< M[1][j], M[2][j], M[3][j] >>))
        size == << Length(1), Length(2), Length(3) >>
        Unit(i, j) == IF size[j] = 0 THEN 0 ELSE M[i][j] \div size[j]
        rot == << << Unit(1, 1), Unit(1, 2), Unit(1, 3) >>,
                  << Unit(2, 1), Unit(2, 2), Unit(2, 3) >>,
                  << Unit(3, 1), Unit(3, 2), Unit(3, 3) >> >>
        negative == Det3(rot) < 0
        Negated(r) == << -r[1], -r[2], -r[3] >>
    IN  [loc |-> << M[1][4], M[2][4], M[3][4] >>,
         rot |-> MatrixToQuat(IF negative
                              THEN << Negated(rot[1]), Negated(rot[2]), Negated(rot[3]) >>
                              ELSE rot),
         scale |-> IF negative THEN Negated(size) ELSE size]

\* The quaternion of a rotation argument, by rot_type; "none" for a
\* rot_type that no branch handles.
QuatOfRotation(rotation, rot_type) ==
    CASE rot_type = "quaternion" -> Returned(rotation)
      [] rot_type = "euler_ZYZ" -> Returned(EulerToQuat(rotation))
      [] rot_type = "rot_mat" -> Returned(MatrixToQuat(rotation))
      [] rot_type = "rot_vec" -> Returned(RotVecToQuat(rotation))
      [] OTHER -> Raised("ValueError")

\* q_rot -> axis_angle -> rot_angle, rot_axis -> Matrix.Rotation
RotationMatrixOf(q_rot) ==
    Rotation(QuatToRotVec(q_rot).angle, QuatToRotVec(q_rot).dir)

\* The rotation branch of both helpers: rot_mat of a rotation argument, or
\* the exception raised.
RotMatOfArgument(rotation, rot_type) ==
    LET q_rot == QuatOfRotation(rotation, rot_type)
    IN  IF q_rot.status = "ok" THEN Returned(RotationMatrixOf(q_rot.value)) ELSE q_rot

\* A helper that takes no rotation at all for a rotation argument that was
\* not given.
IdentityRotation(orig_rot) == Identity4

\* A rotation argument that was not given: set_world_pose takes the
\* object's own, orig_rot.to_matrix().to_4x4().
CurrentRotation(orig_rot) == To4x4(QuatToMatrix(orig_rot))

\* The arguments the helpers are called with.
PoseRotTypes == ROTATION_TYPES \cup {"axis_angle"}
PoseQuats == << <<1, 0, 0, 1>>, <<0, 1, 0, 0>> >>
\* A rotation written the way rot_type asks for (as a quaternion for a
\* rot_type that is not one of ROTATION_TYPES).
RotationArg(i, rot_type) ==
    CASE rot_type = "euler_ZYZ" -> QuatToEuler(PoseQuats[i])
      [] rot_type = "rot_mat" -> QuatToMatrix(PoseQuats[i])
      [] rot_type = "rot_vec" -> QuatToRotVec(PoseQuats[i])
      [] OTHER -> PoseQuats[i]
RotationChoices == 0..Len(PoseQuats)     \* 0: rotation=None
RotationArgs ==
    [i \in RotationChoices, rot_type \in PoseRotTypes |->
        IF i = 0 THEN None ELSE Some(RotationArg(i, rot_type))]
\* The rotation branch for each of these arguments, worked out once.
RotMats ==
    [i \in 1..Len(PoseQuats), rot_type \in PoseRotTypes |->
        RotMatOfArgument(RotationArg(i, rot_type), rot_type)]
TranslationArgs == {None, Some(<<1, 0, 0>>)}
ScaleArgs == {None, Some(<<2, 1, 1>>), Some(<<-1, 1, 1>>)}

\* rigid_movement(obj, rotation, translation, rot_type), rotation being the
\* i-th of the rotations above: how the call ends and obj.matrix_world
\* after it.
rigid_movement(M, i, translation, rot_type) ==
    LET rot_mat == IF i # 0 THEN RotMats[i, rot_type] ELSE Returned(Identity4)
        loc_mat == IF translation.given THEN Translation(translation.v) ELSE Identity4
        orig == Decompose(M)
        orig_loc_mat == Translation(orig.loc)
        orig_rot_mat == To4x4(QuatToMatrix(orig.rot))
        orig_scale_mat == Scaling(orig.scale)
    IN  IF rot_mat.status # "ok" THEN [status |-> rot_mat.status, matrix_world |-> M]
        ELSE [status |-> "ok",
              matrix_world |-> MatMul(MatMul(MatMul(loc_mat, orig_loc_mat),
                                             MatMul(rot_mat.value, orig_rot_mat)), orig_scale_mat)]

\* set_world_pose(obj, rotation, translation, rot_type, scale)
set_world_pose(M, i, translation, rot_type, scale) ==
    LET orig == Decompose(M)
        rot_mat == IF i # 0 THEN RotMats[i, rot_type] ELSE Returned(CurrentRotation(orig.rot))
        loc_mat == IF translation.given THEN Translation(translation.v) ELSE Translation(orig.loc)
        scale_mat == IF scale.given THEN Scaling(scale.v) ELSE Scaling(orig.scale)
    IN  IF rot_mat.status # "ok" THEN [status |-> rot_mat.status, matrix_world |-> M]
        ELSE [status |-> "ok", matrix_world |-> MatMul(MatMul(loc_mat, rot_mat.value), scale_mat)]

InReach(M) == \A i \in 1..3 : M[i][4] \in (-MaxCoord)..MaxCoord

\* The matrices obj.matrix_world takes under these arguments: the object
\* somewhere along the x axis, turned by a few of the rotations above one
\* after the other, with a scale that decompose() reads from a supplied one.
PoseLocs == {<<x, 0, 0>> : x \in 0..MaxCoord}
PoseGroup ==
    LET G == {<<1, 0, 0, 0>>} \cup {PoseQuats[i] : i \in 1..Len(PoseQuats)}
    IN  {Shortest(QuatMul(QuatMul(a, b), QuatMul(c, d))) : a \in G, b \in G, c \in G, d \in G}
PoseScales == {Decompose(Scaling(s.v)).scale : s \in (ScaleArgs \ {None}) \cup {Some(<<1, 1, 1>>)}}
WorldMatrices ==
    {MatMul(MatMul(Translation(l), To4x4(QuatToMatrix(q))), Scaling(s)) :
        l \in PoseLocs, q \in PoseGroup, s \in PoseScales}

\* obj.matrix_world.decompose() of each of these matrices, and what the two
\* helpers do to each, worked out once.
Poses == [M \in WorldMatrices |-> Decompose(M)]
RigidMovementResults ==
    [M \in WorldMatrices, i \in RotationChoices, translation \in TranslationArgs,
     rot_type \in PoseRotTypes |-> rigid_movement(M, i, translation, rot_type)]
SetWorldPoseResults ==
    [M \in WorldMatrices, i \in RotationChoices, translation \in TranslationArgs,
     rot_type \in PoseRotTypes, scale \in ScaleArgs |->
        set_world_pose(M, i, translation, rot_type, scale)]

CallRigidMovement(i, translation, rot_type) ==
    LET rotation == RotationArgs[i, rot_type]
        r == RigidMovementResults[matrix_world, i, translation, rot_type]
    IN  /\ InReach(r.matrix_world)
        /\ matrix_world' = r.matrix_world
        /\ poseCall' = [op |-> "rigid_movement", rotation |-> rotation, translation |-> translation,
                        rot_type |-> rot_type, scale |-> None, status |-> r.status]
        /\ UNCHANGED <<sceneVars, renderVars, colorVars, rotVars, dockerVars, scriptVars>>

CallSetWorldPose(i, translation, rot_type, scale) ==
    LET rotation == RotationArgs[i, rot_type]
        r == SetWorldPoseResults[matrix_world, i, translation, rot_type, scale]
    IN  /\ matrix_world' = r.matrix_world
        /\ poseCall' = [op |-> "set_world_pose", rotation |-> rotation, translation |-> translation,
                        rot_type |-> rot_type, scale |-> scale, status |-> r.status]
        /\ UNCHANGED <<sceneVars, renderVars, colorVars, rotVars, dockerVars, scriptVars>>

PoseNext ==
    \/ \E i \in RotationChoices, translation \in TranslationArgs, rot_type \in PoseRotTypes :
          CallRigidMovement(i, translation, rot_type)
    \/ \E i \in RotationChoices, translation \in TranslationArgs, rot_type \in PoseRotTypes,
          scale \in ScaleArgs : CallSetWorldPose(i, translation, rot_type, scale)

(***************************************************************************)
(* docker_builder.py: main.                                                *)
(* A version string is the tuple of its numbers; a variable of main is     *)
(* Unbound until a statement assigns it.                                   *)
(***************************************************************************)
Unbound == [bound |-> FALSE]
Bound(v) == [bound |-> TRUE, v |-> v]

\* blender_python_table.csv: blender_version and python_min_version of each
\* row.
VersionTable ==
    << [blender_version |-> <<2, 93>>, python_min_version |-> <<3, 9>>],
       [blender_version |-> <<3, 1>>, python_min_version |-> <<3, 10>>] >>
DefaultBlenderVersion == <<3, 1>>

\* df['blender_version'].unique()
BlenderVersionsOf(df) == {df[r].blender_version : r \in 1..Len(df)}
\* df.loc[df['blender_version'] == blender_version, 'python_min_version'].values[0]
MinPythonOf(df, blender_version) ==
    LET row == CHOOSE r \in 1..Len(df) :
                   /\ df[r].blender_version = blender_version
                   /\ \A k \in 1..(r - 1) : df[k].blender_version # blender_version
    IN  df[row].python_min_version

\* version.parse(a) < version.parse(b): the numbers are compared one by one,
\* a shorter version counting as ending in zeros.
RECURSIVE VersionLessFrom(_, _, _)
VersionLessFrom(a, b, k) ==
    LET x == IF k <= Len(a) THEN a[k] ELSE 0
        y == IF k <= Len(b) THEN b[k] ELSE 0
    IN  IF k > Len(a) /\ k > Len(b) THEN FALSE
        ELSE IF x # y THEN x < y
        ELSE VersionLessFrom(a, b, k + 1)
\* A comparison that finds no version lower than another.
VersionNeverLess(a, b) == FALSE

VersionLess(a, b) == VersionLessFrom(a, b, 1)

\* The image tag as its parts: f'bpy-{PYTHON_MAJ_MIN}' is ["bpy-", version],
\* a tag given on the command line is [text, <<>>]; '-gpu' may follow.
ImageTag(text, python, gpu) == [text |-> text, python |-> python, gpu |-> gpu]

\* main(), from the parsed arguments to the way it ends.  args.tag is always
\* a string: without --tag it is the string 'None'.
main(args) ==
    LET df == VersionTable
        blender_version == IF ~args.blender_version.given THEN DefaultBlenderVersion
                           ELSE args.blender_version.v
        versionKnown == blender_version \in BlenderVersionsOf(df)
        min_python_version == MinPythonOf(df, blender_version)
        tooLow == args.python_version.given
                  /\ VersionLess(args.python_version.v, min_python_version)
        python_version == IF args.python_version.given THEN args.python_version.v
                          ELSE min_python_version
        default_python == IF ~args.python_version.given THEN Bound(TRUE)
                          ELSE IF python_version # min_python_version THEN Bound(FALSE)
                          ELSE Unbound
        image_tag == args.tag
        \* if image_tag is None: IMAGE_TAG = f'bpy-{PYTHON_MAJ_MIN}'
        tag1 == IF ~image_tag.given THEN Bound(ImageTag("bpy-", python_version, FALSE)) ELSE Unbound
        \* if gpu_support: IMAGE_TAG += '-gpu'
        gpuFails == args.gpu /\ ~tag1.bound
        IMAGE_TAG == IF args.gpu /\ tag1.bound THEN Bound([tag1.v EXCEPT !.gpu = TRUE]) ELSE tag1
        BASE_IMAGE == IF args.gpu THEN "gpu_image" ELSE "ubuntu:20.04"
        wrote == [python |-> python_version, gpu |-> args.gpu]
        build_command == [tag |-> IMAGE_TAG.v, blender_version |-> blender_version,
                          no_cache |-> args.no_cache,
                          cpuset |-> IF args.builder_cpus > 0 THEN args.builder_cpus - 1 ELSE -1,
                          base_image |-> BASE_IMAGE, python |-> python_version]
        End(raised, file, command, printed, runs) ==
            [raised |-> raised, wrote |-> file, build_command |-> command,
             printed |-> printed, runs |-> runs]
    IN  IF ~versionKnown THEN End("ValueError", None, None, FALSE, 0)
        ELSE IF tooLow THEN End("ValueError", None, None, FALSE, 0)
        ELSE IF gpuFails THEN End("UnboundLocalError", None, None, FALSE, 0)
        \* set_bpy_options(PYTHON_MAJ_MIN, gpu_support) has written the cmake file
        ELSE IF ~IMAGE_TAG.bound THEN End("UnboundLocalError", Some(wrote), None, FALSE, 0)
        ELSE IF ~default_python.bound THEN End("UnboundLocalError", Some(wrote), None, FALSE, 0)
        ELSE IF ~default_python.v THEN End("NotImplementedError", Some(wrote), None, FALSE, 0)
        ELSE IF args.dummy THEN End("none", Some(wrote), Some(build_command), TRUE, 0)
        ELSE End("none", Some(wrote), Some(build_command), FALSE, 1)

\* The command lines main is run with.
BlenderVersionArgs == {None, Some(<<2, 93>>), Some(<<3, 1>>), Some(<<4, 0>>)}
PythonVersionArgs == {None, Some(<<3, 9>>), Some(<<3, 10>>), Some(<<3, 10, 0>>), Some(<<3, 11>>)}
TagArgs == {Some("None"), Some("my-bpy")}
CpuArgs == {0, 4}

RunMain(blender_version, python_version, gpu, tag, no_cache, builder_cpus, dummy) ==
    LET args == [blender_version |-> blender_version, python_version |-> python_version,
                 gpu |-> gpu, tag |-> tag, no_cache |-> no_cache,
                 builder_cpus |-> builder_cpus, dummy |-> dummy]
    IN  /\ dockerRun' = [op |-> "main", args |-> args, end |-> main(args)]
        /\ UNCHANGED <<sceneVars, renderVars, colorVars, rotVars, poseVars, scriptVars>>

DockerNext ==
    \E blender_version \in BlenderVersionArgs, python_version \in PythonVersionArgs,
       gpu \in BOOLEAN, tag \in TagArgs, no_cache \in BOOLEAN, builder_cpus \in CpuArgs,
       dummy \in BOOLEAN :
        RunMain(blender_version, python_version, gpu, tag, no_cache, builder_cpus, dummy)

(***************************************************************************)
(* examples/animations/animate_function.py and examples/bezier/            *)
(* bezier_SE3.py: main, one statement group at a time.  A run keeps the    *)
(* list of the calls it has made so far, in the order it made them.  The   *)
(* frame count of the scripts, FPS * DURATION, is TotalFrames here.  The   *)
(* render call either returns or is stopped from the keyboard, the one     *)
(* failure bezier_SE3.py has a handler for.                                *)
(***************************************************************************)
Scripts == {"animate_function", "bezier_SE3"}

Event(step) == [step |-> step, object |-> "", data_path |-> "", frame |-> 0]
Keyframe(property, frame) ==
    [step |-> "keyframe_insert", object |-> property[1], data_path |-> property[2], frame |-> frame]

\* The keyframe_insert calls of one pass of the loop, in the order of the code.
AnimatedProperties(script) ==
    IF script = "animate_function"
    THEN << <<"sphere", "location">> >>
    ELSE << <<"camera", "rotation_euler">>, <<"camera", "location">>,
            <<"text", "rotation_euler">>, <<"text", "location">>,
            <<"stl_model", "rotation_euler">>, <<"stl_model", "location">> >>

\* range(1, TOTAL_FRAMES+1), and the range of a loop that stops one frame early.
FramesButLast == 1..(TotalFrames - 1)
LoopFrames == 1..TotalFrames

\* --cycles, --eevee and, in bezier_SE3.py only, --video; animate_function.py
\* always renders the animation.
ScriptArgs(script) ==
    {[cycles |-> c, eevee |-> e, video |-> v] :
        c \in BOOLEAN, e \in BOOLEAN,
        v \in IF script = "animate_function" THEN {TRUE} ELSE BOOLEAN}

RenderHelper(args) ==
    IF args.cycles THEN "cycles_render"
    ELSE IF args.eevee THEN "eevee_render"
    ELSE "workbench_render"

NewRun(script, args) ==
    [op |-> "main", script |-> script, args |-> args, pc |-> "create_scene", i |-> 0, events |-> <<>>]

Running == scriptRun.op = "main"
Step(pc, i, events) == scriptRun' = [scriptRun EXCEPT !.pc = pc, !.i = i, !.events = @ \o events]
OtherFamilies == <<sceneVars, renderVars, colorVars, rotVars, poseVars, dockerVars>>

CreateScene ==
    /\ Running /\ scriptRun.pc = "create_scene"
    /\ Step("add_objects", 0,
            << Event(IF scriptRun.script = "animate_function"
                     THEN "create_2d_scene" ELSE "create_3d_scene") >>)
    /\ UNCHANGED OtherFamilies

\* The axes, curves, points, text and models that the script draws.
AddObjects ==
    /\ Running /\ scriptRun.pc = "add_objects"
    /\ Step("set_animation", 0, << Event("add_objects") >>)
    /\ UNCHANGED OtherFamilies

\* set_animation, then the for statement takes the first frame of its range.
SetAnimation ==
    /\ Running /\ scriptRun.pc = "set_animation"
    /\ Step(IF 1 \in LoopFrames THEN "keyframes" ELSE "render",
            1, << Event("set_animation") >>)
    /\ UNCHANGED OtherFamilies

\* One pass of the loop: every keyframe_insert of frame i, then the next i.
InsertKeyframes ==
    /\ Running /\ scriptRun.pc = "keyframes"
    /\ LET i == scriptRun.i
           properties == AnimatedProperties(scriptRun.script)
       IN  Step(IF i + 1 \in LoopFrames THEN "keyframes" ELSE "render",
                i + 1,
                [k \in 1..Len(properties) |-> Keyframe(properties[k], i)])
    /\ UNCHANGED OtherFamilies

\* The render helper is entered; bezier_SE3.py sets the frame of a still first.
CallRender ==
    /\ Running /\ scriptRun.pc = "render"
    /\ Step("rendering", scriptRun.i,
            (IF scriptRun.args.video THEN <<>> ELSE << Event("frame_set") >>)
                \o << Event(RenderHelper(scriptRun.args)) >>)
    /\ UNCHANGED OtherFamilies

RenderReturns ==
    /\ Running /\ scriptRun.pc = "rendering"
    /\ Step(IF scriptRun.script = "animate_function" \/ scriptRun.args.video
            THEN "avi2mp4" ELSE "quit_blender",
            scriptRun.i, << Event("render_returned") >>)
    /\ UNCHANGED OtherFamilies

\* KeyboardInterrupt out of the render helper: bezier_SE3.py prints that the
\* render was canceled and goes on, animate_function.py ends with the exception.
RenderInterrupted ==
    /\ Running /\ scriptRun.pc = "rendering"
    /\ Step(IF scriptRun.script = "bezier_SE3" THEN "quit_blender" ELSE "aborted",
            scriptRun.i, << Event("KeyboardInterrupt") >>)
    /\ UNCHANGED OtherFamilies

ConvertVideo ==
    /\ Running /\ scriptRun.pc = "avi2mp4"
    /\ Step(IF scriptRun.script = "animate_function" THEN "os.remove" ELSE "quit_blender",
            scriptRun.i, << Event("avi2mp4") >>)
    /\ UNCHANGED OtherFamilies

RemoveAvi ==
    /\ Running /\ scriptRun.pc = "os.remove"
    /\ Step("quit_blender", scriptRun.i, << Event("os.remove") >>)
    /\ UNCHANGED OtherFamilies

QuitBlender ==
    /\ Running /\ scriptRun.pc = "quit_blender"
    /\ Step("done", scriptRun.i, << Event("quit_blender") >>)
    /\ UNCHANGED OtherFamilies

ScriptNext ==
    \/ CreateScene
    \/ AddObjects
    \/ SetAnimation
    \/ InsertKeyframes
    \/ CallRender
    \/ RenderReturns
    \/ RenderInterrupted
    \/ ConvertVideo
    \/ RemoveAvi
    \/ QuitBlender

(***************************************************************************)
(* Initial values and specifications.                                      *)
(***************************************************************************)
SceneIdle == scene_objects = <<>> /\ sceneCall = NoCall
RenderIdle ==
    /\ render = RenderDefaults
    /\ cycles = CyclesDefaults
    /\ shading = ShadingDefaults
    /\ renderCall = NoCall

ColorIdle ==
    /\ colorScale = NewColorScale(0, 1, FALSE, "viridis", TRUE)
    /\ colorCall = NoCall

RotIdle == rotCall = NoCall
PoseIdle == matrix_world = Identity4 /\ poseCall = NoCall
DockerIdle == dockerRun = NoCall
ScriptIdle == scriptRun = NoCall

SubsurfInit == SceneIdle /\ RenderIdle /\ ColorIdle /\ RotIdle /\ PoseIdle /\ DockerIdle /\ ScriptIdle
SpecSubsurf == SubsurfInit /\ [][SubsurfNext]_vars

RenderInit ==
    /\ scene_objects \in RenderScenes
    /\ sceneCall = NoCall
    /\ RenderIdle
    /\ ColorIdle
    /\ RotIdle
    /\ PoseIdle
    /\ DockerIdle
    /\ ScriptIdle
SpecRender == RenderInit /\ [][RenderNext]_vars

\* A scale as its constructor leaves it, for min_value < max_value.
ColorInit ==
    /\ \E min_value \in {-1, 0}, max_value \in 1..MaxValue, invert \in BOOLEAN :
          \/ \E colors \in ScaleNames :
                colorScale = NewColorScale(min_value, max_value, invert, colors, TRUE)
          \/ \E colors \in CustomColors :
                colorScale = NewColorScale(min_value, max_value, invert, colors, FALSE)
    /\ colorCall = NoCall
    /\ SceneIdle
    /\ RenderIdle
    /\ RotIdle
    /\ PoseIdle
    /\ DockerIdle
    /\ ScriptIdle
SpecColor == ColorInit /\ [][ColorNext]_vars

RotInit == SceneIdle /\ RenderIdle /\ ColorIdle /\ RotIdle /\ PoseIdle /\ DockerIdle /\ ScriptIdle
SpecRot == RotInit /\ [][RotNext]_vars

DockerInit == SceneIdle /\ RenderIdle /\ ColorIdle /\ RotIdle /\ PoseIdle /\ DockerIdle /\ ScriptIdle
SpecDocker == DockerInit /\ [][DockerNext]_vars

\* A new object sits at the origin of the world, unturned and unscaled.
PoseInit == SceneIdle /\ RenderIdle /\ ColorIdle /\ RotIdle /\ PoseIdle /\ DockerIdle /\ ScriptIdle
SpecPose == PoseInit /\ [][PoseNext]_vars

\* An example script is started with some command line.
ScriptInit ==
    /\ \E script \in Scripts : \E args \in ScriptArgs(script) : scriptRun = NewRun(script, args)
    /\ SceneIdle
    /\ RenderIdle
    /\ ColorIdle
    /\ RotIdle
    /\ PoseIdle
    /\ DockerIdle
SpecScript == ScriptInit /\ [][ScriptNext]_vars

(***************************************************************************)
(* Properties of remove_subsurf_modifiers (SpecSubsurf).                   *)
(***************************************************************************)
Elems(s) == {s[i] : i \in 1..Len(s)}
HasSubsurf(ob) == "SUBSURF" \in Elems(ob.modifiers)
RemoveReturned == sceneCall.op = "remove_subsurf_modifiers"

\* C2: after remove_subsurf_modifiers(scene) returns, no MESH object of the
\* scene has a SUBSURF modifier, however many modifiers each object had and
\* in whatever order.
C2_NoSubsurfLeft ==
    RemoveReturned =>
        \A k \in 1..Len(scene_objects) :
            IsMesh(scene_objects[k]) => ~HasSubsurf(scene_objects[k])

\* A call on a scene in which one MESH object had two SUBSURF modifiers next
\* to each other and a third one after another modifier.
C2_Witness ==
    /\ RemoveReturned
    /\ \E k \in 1..Len(sceneCall.before) :
          /\ sceneCall.before[k].type = "MESH"
          /\ sceneCall.before[k].modifiers = <<"SUBSURF", "SUBSURF", "BEVEL">>
    /\ \E k \in 1..Len(sceneCall.before) :
          /\ sceneCall.before[k].type = "MESH"
          /\ sceneCall.before[k].modifiers = <<"SUBSURF", "BEVEL", "SUBSURF">>

C6_CyclesRendersAtGivenResolution ==
    renderCall.op \in {"cycles_render", "eevee_render", "workbench_render"} =>
        /\ render.resolution_x = renderCall.resolution_x
        /\ render.resolution_y = renderCall.resolution_y
        /\ renderCall.rendered.resolution_x = renderCall.resolution_x
        /\ renderCall.rendered.resolution_y = renderCall.resolution_y

(***************************************************************************)
(* Properties of ColorScale.get_color (SpecColor).                         *)
(***************************************************************************)
GotColor == colorCall.op = "get_color"
ControlColor(k) == Exactly(colorScale.colors[k + 1])
LastN == Len(colorScale.colors) - 1

\* C4: get_color clamps its input to the scale range: the normalized
\* position handed to squaredlerp lies in [0, 1], a value below min_value
\* gives what min_value gives and a value above max_value gives what
\* max_value gives.
C4_GetColorClamps ==
    GotColor =>
        /\ 0 <= colorCall.t.num /\ colorCall.t.num <= colorCall.t.den
        /\ colorCall.value < colorScale.min_value =>
               colorCall.ret = get_color(colorScale, colorScale.min_value, colorCall.ret_type)
        /\ colorCall.value > colorScale.max_value =>
               colorCall.ret = get_color(colorScale, colorScale.max_value, colorCall.ret_type)

\* A call with a value above the range of a scale of several colours, which
\* returned a colour.
C4_Witness ==
    /\ GotColor
    /\ colorCall.value > colorScale.max_value
    /\ LastN >= 2
    /\ colorCall.ret.status = "ok"

\* C5: on a scale of N+1 control colours, N >= 1, get_color at the value
\* whose normalized position is k/N returns the k-th control colour, for
\* every k in 0..N.
C5_ControlColorsAtTheirPositions ==
    (GotColor /\ colorCall.ret_type = "rgb" /\ LastN >= 1) =>
        \A k \in 0..LastN :
            colorCall.t.num * LastN = k * colorCall.t.den =>
                SameColor(colorCall.ret, ControlColor(k))

(***************************************************************************)
(* Properties of the geometry.py conversions (SpecRot).                    *)
(***************************************************************************)
\* C7: to_quaternion returns a quaternion for every form of rotation its
\* docstring lists (3x3 matrix, 4x4 matrix, rotation vector, quaternion,
\* axis and angle), and only an input of an unrecognised shape ends in
\* ValueError.
C7_ToQuaternionTakesEveryListedForm ==
    (rotCall.op = "to_quaternion" /\ rotCall.type \in {"tuple", "quat"}) =>
        /\ rotCall.form \in ListedForms => rotCall.ret.status = "ok"
        /\ rotCall.ret.status # "ok" =>
               (rotCall.ret.status = "ValueError" /\ rotCall.form \notin ListedForms)

\* C8: as_rot_type returns a converted rotation for every name in
\* ACCEPTED_ROT_TYPES and raises ValueError for exactly the names that are
\* not in it.
C8_AsRotTypeAcceptsTheAcceptedNames ==
    rotCall.op = "as_rot_type" =>
        /\ rotCall.rot_type \in ACCEPTED_ROT_TYPES => rotCall.ret.status = "ok"
        /\ rotCall.rot_type \notin ACCEPTED_ROT_TYPES => rotCall.ret.status = "ValueError"

(***************************************************************************)
(* Properties of the movement helpers (SpecPose).                          *)
(***************************************************************************)
PoseCalled(op) == poseCall.op = op /\ poseCall.status = "ok"
Positive(scale) == \A j \in 1..3 : scale[j] > 0

C9_InvalidRotTypeRaises ==
    [][(poseCall'.op \in {"rigid_movement", "set_world_pose"} /\ poseCall'.rot_type \notin ROTATION_TYPES)
          => (poseCall'.status = "ValueError" /\ matrix_world' = matrix_world)]_vars

(***************************************************************************)
(* Properties of docker_builder.main (SpecDocker).                         *)
(***************************************************************************)
\* The run passed the checks of the blender and python versions.
PassedValidation ==
    /\ dockerRun.op = "main"
    /\ dockerRun.end.raised # "ValueError"

\* The python version the image is built for.
EffectivePython ==
    IF dockerRun.args.python_version.given THEN dockerRun.args.python_version.v
    ELSE MinPythonOf(VersionTable,
                     IF dockerRun.args.blender_version.given THEN dockerRun.args.blender_version.v
                     ELSE DefaultBlenderVersion)

\* C10: on every run that passes version validation the build command is
\* formed, and its image tag is the value of --tag when one is given and
\* 'bpy-<python version>' otherwise, with '-gpu' appended under --gpu.
C10_TagOfBuildCommand ==
    PassedValidation =>
        /\ dockerRun.end.build_command.given
        /\ dockerRun.end.build_command.v.tag =
              IF dockerRun.args.tag.v # "None"
              THEN ImageTag(dockerRun.args.tag.v, <<>>, dockerRun.args.gpu)
              ELSE ImageTag("bpy-", EffectivePython, dockerRun.args.gpu)

\* The blender version the run is about, and its minimum python version.
ChosenBlender ==
    IF dockerRun.args.blender_version.given THEN dockerRun.args.blender_version.v
    ELSE DefaultBlenderVersion
BlenderKnown == ChosenBlender \in BlenderVersionsOf(VersionTable)
MinPython == MinPythonOf(VersionTable, ChosenBlender)
\* version.parse(a) == version.parse(b)
SameVersion(a, b) == ~VersionLess(a, b) /\ ~VersionLess(b, a)
ReachedBuild == dockerRun.end.printed \/ dockerRun.end.runs > 0

\* C11: a run that passes validation reaches the build step (print under
\* --dummy, run otherwise) exactly when the effective python version is the
\* minimum one of the chosen blender version, be it left unset or passed
\* with that value, and raises NotImplementedError exactly when a higher
\* one is requested.
C11_BuildsExactlyForMinimumPython ==
    PassedValidation =>
        /\ ReachedBuild <=> SameVersion(EffectivePython, MinPython)
        /\ dockerRun.end.raised = "NotImplementedError" <=> VersionLess(MinPython, EffectivePython)

\* The run asks for a blender version outside the table, or for a python
\* version below the minimum of its blender version.
InvalidVersions ==
    /\ dockerRun.op = "main"
    /\ \/ ~BlenderKnown
       \/ /\ BlenderKnown
          /\ dockerRun.args.python_version.given
          /\ VersionLessFrom(dockerRun.args.python_version.v, MinPython, 1)

\* C12: when the blender version is not in the table, or the requested
\* python version is lower than the minimum for it, main raises ValueError
\* having written no file, printed nothing and run no command.
C12_ValueErrorBeforeAnyEffect ==
    InvalidVersions =>
        /\ dockerRun.end.raised = "ValueError"
        /\ ~dockerRun.end.wrote.given
        /\ ~dockerRun.end.build_command.given
        /\ ~dockerRun.end.printed
        /\ dockerRun.end.runs = 0

\* A python version below the minimum was asked for a blender version of
\* the table, with --gpu, and the run ended in ValueError.
C12_Witness ==
    /\ InvalidVersions
    /\ BlenderKnown
    /\ dockerRun.args.gpu
    /\ dockerRun.end.raised = "ValueError"

\* C13: a run with a blender version of the table and the python version
\* left unset prints the build command and runs nothing under --dummy, and
\* without --dummy runs the build exactly once and prints nothing.
C13_DummyPrintsElseRunsOnce ==
    (dockerRun.op = "main" /\ BlenderKnown /\ ~dockerRun.args.python_version.given) =>
        IF dockerRun.args.dummy
        THEN dockerRun.end.printed /\ dockerRun.end.runs = 0
        ELSE ~dockerRun.end.printed /\ dockerRun.end.runs = 1

(***************************************************************************)
(* Properties of the example scripts (SpecScript).                         *)
(***************************************************************************)
Events == scriptRun.events
At(step) == {k \in 1..Len(Events) : Events[k].step = step}
SceneCalls == At("create_2d_scene") \cup At("create_3d_scene")
RenderCalls == At("cycles_render") \cup At("eevee_render") \cup At("workbench_render")
KeyframesOf(property, frame) ==
    {k \in At("keyframe_insert") :
        /\ Events[k].object = property[1]
        /\ Events[k].data_path = property[2]
        /\ Events[k].frame = frame}
PropertiesOf(script) == {AnimatedProperties(script)[k] : k \in 1..Len(AnimatedProperties(script))}

\* The scene is created by the first call of the run, once.
SceneFirst == Events /= <<>> => SceneCalls = {1}

\* Keyframes go in by increasing frame, at most one for a property and a frame.
KeyframesInFrameOrder ==
    /\ \A j \in At("keyframe_insert"), k \in At("keyframe_insert") :
          j < k => Events[j].frame <= Events[k].frame
    /\ \A k \in At("keyframe_insert") :
          /\ Events[k].frame \in 1..TotalFrames
          /\ <<Events[k].object, Events[k].data_path>> \in PropertiesOf(scriptRun.script)
          /\ KeyframesOf(<<Events[k].object, Events[k].data_path>>, Events[k].frame) = {k}

\* A render helper is called once, with every keyframe of every frame before it.
RenderAfterLastKeyframe ==
    \A r \in RenderCalls :
        /\ RenderCalls = {r}
        /\ \A k \in At("keyframe_insert") : k < r
        /\ \A frame \in 1..TotalFrames : \A property \in PropertiesOf(scriptRun.script) :
              KeyframesOf(property, frame) /= {}

QuitAfterRenderReturned ==
    \A q \in At("quit_blender") :
        \E r \in RenderCalls : \E e \in At("render_returned") : r < e /\ e < q

QuitAfterRenderEnded ==
    \A q \in At("quit_blender") :
        \E r \in RenderCalls : \E e \in At("render_returned") \cup At("KeyboardInterrupt") :
            r < e /\ e < q

====
